---- MODULE Spec2Model ----
(***************************************************************************)
(* A model of registermaps/util.py: the cached resource resolvers          *)
(* (resource_bytes, resource_text, resource_template), the diagnostics     *)
(* switch (ProgramGlobals, printverbose), the output destinations          *)
(* (TextOutput, DirOutput, StdOutput, StringOutput) and the output         *)
(* registry (Outputs).                                                     *)
(*                                                                         *)
(* Strings the code takes apart or joins (resource names, paths, written   *)
(* text) are sequences of one-character strings; bytes are integers        *)
(* 0..255; decoded text is a sequence of code points.                      *)
(***************************************************************************)
EXTENDS Integers, Sequences, FiniteSets, TLC

VARIABLES
  files,          \* the bundled resource directory: relative path -> bytes
  cache,          \* per resolver, the lru_cache's entries <<key, result>>, oldest first
  jinja_cache,    \* the templates the jinja environment has loaded: name -> template
  reads,          \* history: <<resolver, key>> -> number of reads of the storage made for it
  returned,       \* history: <<resolver, name, encoding, errors>> -> what its last call gave
  lastUse,        \* history: <<resolver, key>> -> the call number that last used the key
  calls,          \* history: number of resolver calls made so far
  _outputs,       \* Outputs._outputs: a dict, as its items <<name, class>> in insertion order
  registered,     \* history: outputname -> the class most recently passed to register
  heap,           \* the destination objects: a sequence of [cls, dict]
  handles,        \* the file objects open() has made: a sequence of [path, open, owner]
  fs,             \* the output file system: path -> text
  stdout,         \* what has been written to sys.stdout
  stderr,         \* what has been written to sys.stderr
  ProgramGlobals, \* the module's ProgramGlobals dict
  last            \* history: the last operation, its arguments and its outcome

resVars == <<files, cache, jinja_cache, reads, returned, lastUse, calls>>
regVars == <<_outputs, registered>>
outVars == <<heap, handles, fs>>
dbgVars == <<ProgramGlobals, stderr>>
vars == <<files, cache, jinja_cache, reads, returned, lastUse, calls, _outputs,
          registered, heap, handles, fs, stdout, stderr, ProgramGlobals, last>>

(***************************************************************************)
(* Bounds of the model.                                                    *)
(***************************************************************************)
\* How many times a resource name is prefixed with 'resource/'.
MaxPrefix == 2
\* How many resolver calls a behaviour makes.
MaxCalls == 3

(***************************************************************************)
(* Strings.                                                                *)
(***************************************************************************)
startswith(x, p) == Len(x) >= Len(p) /\ SubSeq(x, 1, Len(p)) = p

_RSC == <<"r", "e", "s", "o", "u", "r", "c", "e", "/">>

\* A faulty _strip_resource: the marker stays.
_strip_resource_never(x) == x

\* Return x, optionally stripping resource/ as a prefix.
_strip_resource(x) ==
  IF startswith(x, _RSC) THEN SubSeq(x, Len(_RSC) + 1, Len(x)) ELSE x

RECURSIVE Prefixed(_, _)
Prefixed(k, n) == IF k = 0 THEN n ELSE _RSC \o Prefixed(k - 1, n)

(***************************************************************************)
(* Outcomes of a call: a value, or the exception it raises.                *)
(***************************************************************************)
Ok(v) == [ok |-> TRUE, value |-> v, err |-> ""]
Raise(e) == [ok |-> FALSE, value |-> <<>>, err |-> e]
\* value v put in front of the outcome r of a decoding of the rest
Cons(v, r) == IF r.ok THEN Ok(<<v>> \o r.value) ELSE r

(***************************************************************************)
(* The storage: the files under the package's resource directory.          *)
(***************************************************************************)
README == <<"/", "R", "E", "A", "D", "M", "E", ".", "r", "s", "t">>
html == <<"h", "t", "m", "l">>
text == <<"t", "e", "x", "t">>
missing == <<"c">>

\* 'A', e-acute in UTF-8, CR, LF
FileA == <<65, 195, 169, 13, 10>>
FileNested == <<66, 10>>
FileReadme == <<72, 10>>

\* Two layouts of the resource directory: without and with a nested
\* directory named 'resource'.
LayoutFlat == (<<"a">> :> FileA) @@ ((html \o README) :> FileReadme)
LayoutNested == LayoutFlat @@ ((_RSC \o <<"a">>) :> FileNested)
Layouts == {LayoutFlat, LayoutNested}

exists(path) == path \in DOMAIN files

\* A faulty read_bytes: a path that is no file reads as empty.
read_bytes_empty_if_absent(path) ==
  IF exists(path) THEN Ok(files[path]) ELSE Ok(<<>>)

\* Traversable.read_bytes(): the whole file, or FileNotFoundError.
read_bytes(path) ==
  IF exists(path) THEN Ok(files[path]) ELSE Raise("FileNotFoundError")

(***************************************************************************)
(* Decoding.  The decoders cover the bytes below 0xE0 (code points below   *)
(* U+0800), which is all the files of the model hold.                      *)
(***************************************************************************)
\* What the error policy makes of one undecodable byte: the code points it
\* contributes, or the failure.
Undecodable(errors) ==
  CASE errors = "ignore" -> Ok(<<>>)
    [] errors = "replace" -> Ok(<<65533>>)
    [] OTHER -> Raise("UnicodeDecodeError")

Then(r, s) == IF ~r.ok THEN r ELSE IF ~s.ok THEN s ELSE Ok(r.value \o s.value)

RECURSIVE utf_8_decode(_, _)
utf_8_decode(b, errors) ==
  IF b = <<>> THEN Ok(<<>>)
  ELSE IF b[1] < 128 THEN Cons(b[1], utf_8_decode(Tail(b), errors))
  ELSE IF /\ b[1] >= 194 /\ b[1] <= 223
          /\ Len(b) >= 2 /\ b[2] >= 128 /\ b[2] <= 191
       THEN Cons((b[1] - 192) * 64 + (b[2] - 128),
                 utf_8_decode(SubSeq(b, 3, Len(b)), errors))
  ELSE Then(Undecodable(errors), utf_8_decode(Tail(b), errors))

RECURSIVE ascii_decode(_, _)
ascii_decode(b, errors) ==
  IF b = <<>> THEN Ok(<<>>)
  ELSE IF b[1] < 128 THEN Cons(b[1], ascii_decode(Tail(b), errors))
  ELSE Then(Undecodable(errors), ascii_decode(Tail(b), errors))

decode(b, encoding, errors) ==
  CASE encoding = "utf-8" -> utf_8_decode(b, errors)
    [] encoding = "ascii" -> ascii_decode(b, errors)
    [] encoding = "latin-1" -> Ok(b)
    [] OTHER -> Raise("LookupError")

\* Text mode with newline=None: '\r\n' and '\r' are read as '\n'.
RECURSIVE universal_newlines(_)
universal_newlines(s) ==
  IF s = <<>> THEN <<>>
  ELSE IF s[1] = 13 /\ Len(s) >= 2 /\ s[2] = 10
       THEN <<10>> \o universal_newlines(SubSeq(s, 3, Len(s)))
  ELSE IF s[1] = 13 THEN <<10>> \o universal_newlines(Tail(s))
  ELSE <<s[1]>> \o universal_newlines(Tail(s))

\* rsc.open('r', encoding=encoding, errors=errors) and f.read()
read_text(path, encoding, errors) ==
  IF ~exists(path) THEN Raise("FileNotFoundError")
  ELSE LET d == decode(files[path], encoding, errors)
       IN  IF d.ok THEN Ok(universal_newlines(d.value)) ELSE d

(***************************************************************************)
(* functools.lru_cache.  A call is its positional arguments and its        *)
(* keyword arguments in the order written; the cache key is made of both,  *)
(* so two calls that bind the same parameters in different ways have       *)
(* different keys.                                                         *)
(***************************************************************************)
resource_bytes_maxsize == 64
resource_text_maxsize == 64
resource_template_maxsize == 64

maxsize(kind) ==
  CASE kind = "bytes" -> resource_bytes_maxsize
    [] kind = "text" -> resource_text_maxsize
    [] kind = "template" -> resource_template_maxsize

Kinds == {"bytes", "text", "template"}

Call(args, kwds) == [args |-> args, kwds |-> kwds]

_make_key(args, kwds) == <<args, kwds>>

KeyOf(call) == _make_key(call.args, call.kwds)

Keys(c) == {c[i][1] : i \in 1..Len(c)}

Find(c, key) ==
  IF key \in Keys(c) THEN CHOOSE i \in 1..Len(c) : c[i][1] = key ELSE 0

Remove(c, i) == SubSeq(c, 1, i - 1) \o SubSeq(c, i + 1, Len(c))

\* A faulty wrapper: a hit leaves the entry where it is, so the cache evicts
\* in insertion order.
lru_cache_wrapper_fifo(c, size, key, fresh) ==
  LET i == Find(c, key)
  IN  IF i # 0 THEN [cache |-> c, result |-> c[i][2], hit |-> TRUE]
      ELSE IF ~fresh.ok THEN [cache |-> c, result |-> fresh, hit |-> FALSE]
      ELSE IF Len(c) >= size
           THEN [cache |-> Tail(c) \o <<<<key, fresh>>>>, result |-> fresh, hit |-> FALSE]
      ELSE [cache |-> Append(c, <<key, fresh>>), result |-> fresh, hit |-> FALSE]

\* A faulty wrapper: nothing is kept, every call is a miss.
lru_cache_wrapper_off(c, size, key, fresh) ==
  [cache |-> c, result |-> fresh, hit |-> FALSE]

\* The wrapper lru_cache(maxsize) puts around a function: c is the cache,
\* fresh the outcome of calling the function itself.  A hit returns the
\* stored result and makes the entry the most recently used; a miss calls
\* the function, and stores its result unless it raised, evicting the least
\* recently used entry from a full cache.
lru_cache_wrapper(c, size, key, fresh) ==
  LET i == Find(c, key)
  IN  IF i # 0
      THEN [cache |-> Remove(c, i) \o <<c[i]>>, result |-> c[i][2], hit |-> TRUE]
      ELSE IF ~fresh.ok THEN [cache |-> c, result |-> fresh, hit |-> FALSE]
      ELSE IF Len(c) >= size
           THEN [cache |-> Tail(c) \o <<<<key, fresh>>>>, result |-> fresh, hit |-> FALSE]
      ELSE [cache |-> Append(c, <<key, fresh>>), result |-> fresh, hit |-> FALSE]

(***************************************************************************)
(* The parameters a call binds.                                            *)
(***************************************************************************)
HasKw(call, name) == \E i \in 1..Len(call.kwds) : call.kwds[i][1] = name

Kw(call, name) ==
  call.kwds[CHOOSE i \in 1..Len(call.kwds) : call.kwds[i][1] = name][2]

\* parameter number pos, named name, with its default
Param(call, pos, name, default) ==
  IF Len(call.args) >= pos THEN call.args[pos]
  ELSE IF HasKw(call, name) THEN Kw(call, name)
  ELSE default

resourcename(call) == call.args[1]
encoding(call) == Param(call, 2, "encoding", "utf-8")
errors(call) == Param(call, 3, "errors", "strict")

\* The (name, encoding, error-policy) tuple of a call of a resolver.
Tuple(kind, call) ==
  IF kind = "text" THEN <<kind, resourcename(call), encoding(call), errors(call)>>
  ELSE <<kind, resourcename(call), "", "">>

RECURSIVE Sum(_, _)
Sum(f, S) ==
  IF S = {} THEN 0
  ELSE LET x == CHOOSE x \in S : TRUE IN f[x] + Sum(f, S \ {x})

Put(f, k, v) == [x \in DOMAIN f \cup {k} |-> IF x = k THEN v ELSE f[x]]
Count(f, k) == IF k \in DOMAIN f THEN f[k] ELSE 0

(***************************************************************************)
(* The jinja environment: PackageLoader(__package__, "resource").  A       *)
(* template is its name and its source; the environment keeps the          *)
(* templates it has loaded and hands them out again without reading.       *)
(***************************************************************************)
get_source(name) ==
  IF ~exists(name) THEN Raise("TemplateNotFound")
  ELSE LET d == utf_8_decode(files[name], "strict")
       IN  IF d.ok THEN Ok(<<name, d.value>>) ELSE d

get_template(name) ==
  IF name \in DOMAIN jinja_cache THEN Ok(jinja_cache[name]) ELSE get_source(name)

(***************************************************************************)
(* The resolvers.                                                          *)
(***************************************************************************)
\* One call of a cached resolver: fresh is what the decorated function
\* gives, path the file it reads when it runs.
Resolve(op, kind, call, path, fresh) ==
  LET key == KeyOf(call)
      out == lru_cache_wrapper(cache[kind], maxsize(kind), key, fresh)
      loaded == kind = "template" /\ path \in DOMAIN jinja_cache
      didRead == ~out.hit /\ exists(path) /\ ~loaded
  IN  /\ calls < MaxCalls
      /\ calls' = calls + 1
      /\ cache' = [cache EXCEPT ![kind] = out.cache]
      /\ jinja_cache' = IF kind = "template" /\ ~out.hit /\ fresh.ok
                        THEN Put(jinja_cache, path, fresh.value)
                        ELSE jinja_cache
      /\ reads' = Put(reads, <<kind, key>>,
                      Count(reads, <<kind, key>>) + (IF didRead THEN 1 ELSE 0))
      /\ returned' = Put(returned, Tuple(kind, call), out.result)
      /\ lastUse' = Put(lastUse, <<kind, key>>, calls + 1)
      /\ last' = [op |-> op, arg |-> call, result |-> out.result, hit |-> out.hit]
      /\ UNCHANGED <<files, regVars, outVars, dbgVars, stdout>>

\* The decorated functions themselves.
resource_bytes_body(call) == read_bytes(_strip_resource(resourcename(call)))

resource_text_body(call) ==
  read_text(_strip_resource(resourcename(call)), encoding(call), errors(call))

resource_template_body(call) == get_template(_strip_resource(resourcename(call)))

resource_bytes(call) ==
  Resolve("resource_bytes", "bytes", call,
          _strip_resource(resourcename(call)), resource_bytes_body(call))

TextCall(op, call) ==
  Resolve(op, "text", call,
          _strip_resource(resourcename(call)), resource_text_body(call))

resource_text(call) == TextCall("resource_text", call)

resource_template(call) ==
  Resolve("resource_template", "template", call,
          _strip_resource(resourcename(call)), resource_template_body(call))

\* Outputs.docs: resource_text('resource/{}/README.rst'.format(output))
docs(output) == TextCall("docs", Call(<<_RSC \o output \o README>>, <<>>))

(***************************************************************************)
(* The calls the model makes.                                              *)
(***************************************************************************)
Names == {Prefixed(k, <<"a">>) : k \in 0..MaxPrefix}

BytesCalls == {Call(<<n>>, <<>>) : n \in Names}

TextCallsOf(n) ==
  { Call(<<n>>, <<>>),
    Call(<<n, "utf-8", "strict">>, <<>>),
    Call(<<n, "ascii">>, <<>>),
    Call(<<n>>, << <<"encoding", "ascii">>, <<"errors", "ignore">> >>) }

TextCalls == UNION {TextCallsOf(n) : n \in Names}

TemplateCalls == BytesCalls

OutputNames == {html, missing}

(***************************************************************************)
(* The state after import.                                                 *)
(***************************************************************************)
NoCall == [op |-> "", arg |-> <<>>, result |-> Ok(<<>>), hit |-> FALSE]

InitRest ==
  /\ cache = [k \in Kinds |-> <<>>]
  /\ jinja_cache = <<>>
  /\ reads = <<>>
  /\ returned = <<>>
  /\ lastUse = <<>>
  /\ calls = 0
  /\ _outputs = <<>>
  /\ registered = <<>>
  /\ heap = <<>>
  /\ handles = <<>>
  /\ fs = <<>>
  /\ stdout = <<>>
  /\ stderr = <<>>
  /\ ProgramGlobals = [verbose |-> FALSE]
  /\ last = NoCall

Init == files \in Layouts /\ InitRest

NextResource ==
  \/ \E c \in BytesCalls : resource_bytes(c)
  \/ \E c \in TextCalls : resource_text(c)
  \/ \E c \in TemplateCalls : resource_template(c)
  \/ \E o \in OutputNames : docs(o)

SpecResource == Init /\ [][NextResource]_vars

(***************************************************************************)
(* A process that has already resolved many resources: the state reached   *)
(* from Init by resolving, with each resolver, the first maxsize - 1 files *)
(* of a large resource directory in order.  The calls of that warm-up have *)
(* the numbers below 1; calls counts the calls made after it.              *)
(***************************************************************************)
Digits == <<"0", "1", "2", "3", "4", "5", "6", "7", "8", "9">>

NameOf(i) == <<"f", Digits[(i \div 10) + 1], Digits[(i % 10) + 1]>>

ManyFiles == {NameOf(i) : i \in 1..(resource_text_maxsize + 2)}

IndexOf(p) == CHOOSE i \in 1..(resource_text_maxsize + 2) : NameOf(i) = p

LayoutMany == [p \in ManyFiles |-> <<IndexOf(p)>>]

Warm(kind) == maxsize(kind) - 1

WarmCall(i) == Call(<<NameOf(i)>>, <<>>)

WarmResult(kind, call) ==
  CASE kind = "bytes" -> resource_bytes_body(call)
    [] kind = "text" -> resource_text_body(call)
    [] kind = "template" -> get_source(_strip_resource(resourcename(call)))

\* The cache after n misses on distinct keys, none of which fills it: the
\* entries in the order of the calls.
WarmCache(kind, n) ==
  [i \in 1..n |-> <<KeyOf(WarmCall(i)), WarmResult(kind, WarmCall(i))>>]

WarmKeys == {<<kind, KeyOf(WarmCall(i))>> : kind \in Kinds, i \in 1..Warm("text")}

InitLRU ==
  /\ files = LayoutMany
  /\ cache = [k \in Kinds |-> WarmCache(k, Warm(k))]
  /\ jinja_cache = [n \in {NameOf(i) : i \in 1..Warm("template")} |->
                      get_source(n).value]
  /\ reads = [k \in WarmKeys |-> 1]
  /\ returned = [t \in {Tuple(k[1], Call(k[2][1], k[2][2])) : k \in WarmKeys} |->
                   WarmResult(t[1], Call(<<t[2]>>, <<>>))]
  /\ lastUse = [k \in WarmKeys |-> IndexOf(k[2][1][1]) - Warm(k[1])]
  /\ calls = 0
  /\ _outputs = <<>>
  /\ registered = <<>>
  /\ heap = <<>>
  /\ handles = <<>>
  /\ fs = <<>>
  /\ stdout = <<>>
  /\ stderr = <<>>
  /\ ProgramGlobals = [verbose |-> FALSE]
  /\ last = NoCall

\* The oldest entry, two files not yet resolved and a name that is no file.
LRUNames ==
  {NameOf(1), NameOf(Warm("text") + 1), NameOf(Warm("text") + 2), missing}

LRUCalls == {Call(<<n>>, <<>>) : n \in LRUNames}

NextLRU ==
  \/ \E c \in LRUCalls : resource_bytes(c)
  \/ \E c \in LRUCalls : resource_text(c)
  \/ \E c \in LRUCalls : resource_template(c)

SpecLRU == InitLRU /\ [][NextLRU]_vars

(***************************************************************************)
(* The output registry.  A class is its name and its attributes; a dict is *)
(* its items in insertion order.                                           *)
(***************************************************************************)
\* How many times register is called.
MaxRegistrations == 3

Class(name, attrs) == [name |-> name, attrs |-> attrs]

Classes ==
  { Class("HtmlA", [outputname |-> html]),
    Class("HtmlB", [outputname |-> html]),
    Class("Text", [outputname |-> text]),
    Class("Plain", <<>>) }

RegistryNames == {html, text, missing}

DictKeys(d) == [i \in 1..Len(d) |-> d[i][1]]

DictHas(d, k) == \E i \in 1..Len(d) : d[i][1] = k

DictGet(d, k) ==
  IF DictHas(d, k)
  THEN Ok(d[CHOOSE i \in 1..Len(d) : d[i][1] = k][2])
  ELSE Raise("KeyError")

\* A faulty d[k] = v: the first value given to a key stays.
DictSetDefault(d, k, v) == IF DictHas(d, k) THEN d ELSE Append(d, <<k, v>>)

\* d[k] = v: a key the dict holds keeps its place and takes the new value.
DictSet(d, k, v) ==
  IF DictHas(d, k)
  THEN [i \in 1..Len(d) |-> IF d[i][1] = k THEN <<k, v>> ELSE d[i]]
  ELSE Append(d, <<k, v>>)

Registrations ==
  IF DOMAIN registered = {} THEN 0 ELSE Sum([n \in DOMAIN registered |-> Len(registered[n])],
                                            DOMAIN registered)

Op(op, arg, result) == [op |-> op, arg |-> arg, result |-> result, hit |-> FALSE]

\* Outputs.register(kls)
register(kls) ==
  /\ Registrations < MaxRegistrations
  /\ IF "outputname" \in DOMAIN kls.attrs
     THEN /\ _outputs' = DictSet(_outputs, kls.attrs.outputname, kls)
          /\ registered' =
               Put(registered, kls.attrs.outputname,
                   (IF kls.attrs.outputname \in DOMAIN registered
                    THEN registered[kls.attrs.outputname] ELSE <<>>) \o <<kls>>)
          /\ last' = Op("register", kls, Ok(kls))
     ELSE /\ UNCHANGED regVars
          /\ last' = Op("register", kls, Raise("AttributeError"))
  /\ UNCHANGED <<resVars, outVars, dbgVars, stdout>>

\* Outputs.output(output)
output(name) ==
  /\ last' = Op("output", name, DictGet(_outputs, name))
  /\ UNCHANGED <<resVars, regVars, outVars, dbgVars, stdout>>

\* list(Outputs): the names __iter__ yields
iterate ==
  /\ last' = Op("__iter__", <<>>, Ok(DictKeys(_outputs)))
  /\ UNCHANGED <<resVars, regVars, outVars, dbgVars, stdout>>

NextRegistry ==
  \/ \E kls \in Classes : register(kls)
  \/ \E n \in RegistryNames : output(n)
  \/ iterate

SpecRegistry == Init /\ [][NextRegistry]_vars

(***************************************************************************)
(* Diagnostics.                                                            *)
(***************************************************************************)
\* How many characters the standard streams take.
MaxOutput == 6

RECURSIVE Join(_, _)
Join(strs, sep) ==
  IF strs = <<>> THEN <<>>
  ELSE IF Len(strs) = 1 THEN strs[1]
  ELSE strs[1] \o sep \o Join(Tail(strs), sep)

\* What print(*args, **kwargs) writes.
PrintText(args, kwargs) ==
  Join(args, IF "sep" \in DOMAIN kwargs THEN kwargs.sep ELSE <<" ">>)
    \o (IF "end" \in DOMAIN kwargs THEN kwargs.end ELSE <<"\n">>)

\* print(*args, **kwargs) with kwargs['file'] in place; file=None is
\* sys.stdout.
print(args, kwargs) ==
  /\ Len(stdout) + Len(stderr) + Len(PrintText(args, kwargs)) <= MaxOutput
  /\ IF kwargs.file = "sys.stderr"
     THEN stderr' = stderr \o PrintText(args, kwargs) /\ stdout' = stdout
     ELSE stdout' = stdout \o PrintText(args, kwargs) /\ stderr' = stderr

setdefault(d, k, v) == IF k \in DOMAIN d THEN d ELSE Put(d, k, v)

\* A faulty printverbose: it prints whatever the flag.
printverbose_always(args, kwargs) ==
  /\ print(args, setdefault(kwargs, "file", "sys.stderr"))
  /\ last' = Op("printverbose", <<args, kwargs>>, Ok(<<>>))
  /\ UNCHANGED <<resVars, regVars, outVars, ProgramGlobals>>

\* Print to stderr if ProgramGlobals['verbose'].
printverbose(args, kwargs) ==
  /\ IF ProgramGlobals.verbose
     THEN print(args, setdefault(kwargs, "file", "sys.stderr"))
     ELSE UNCHANGED <<stdout, stderr>>
  /\ last' = Op("printverbose", <<args, kwargs>>, Ok(<<>>))
  /\ UNCHANGED <<resVars, regVars, outVars, ProgramGlobals>>

\* The caller's ProgramGlobals['verbose'] = b
SetVerbose(b) ==
  /\ ProgramGlobals' = [ProgramGlobals EXCEPT !.verbose = b]
  /\ last' = Op("SetVerbose", b, Ok(<<>>))
  /\ UNCHANGED <<resVars, regVars, outVars, stdout, stderr>>

PrintArgs == { << <<"x">> >>, << <<"x">>, <<"y">> >> }

PrintKwargs == { <<>>, [file |-> "sys.stdout"], [file |-> "None"], [end |-> <<>>] }

NextVerbose ==
  \/ \E a \in PrintArgs, k \in PrintKwargs : printverbose(a, k)
  \/ \E b \in BOOLEAN : SetVerbose(b)

SpecVerbose == Init /\ [][NextVerbose]_vars

(***************************************************************************)
(* Output destinations.  heap holds the objects (destinations and          *)
(* StringIO buffers), an object's reference is its index; handles holds    *)
(* the file objects the builtin open() has made.  A stream is sys.stdout,  *)
(* a file object or a StringIO.                                            *)
(***************************************************************************)
\* How many destination objects are made.
MaxObjects == 2
\* How many files are opened.
MaxHandles == 1

Stdout == [type |-> "sys.stdout", id |-> 0]
FileRef(h) == [type |-> "file", id |-> h]
BufferRef(i) == [type |-> "StringIO", id |-> i]

\* The method resolution order of the destination classes.
MRO(cls) == <<cls, "_BaseOutputDestination">>

\* The properties each class body defines; none of them has a setter.
Properties(cls) ==
  CASE cls = "_BaseOutputDestination" -> {"stream"}
    [] cls = "StdOutput" -> {"stream"}
    [] cls = "StringOutput" -> {"str"}
    [] OTHER -> {}

HasProperty(cls, name) ==
  \E i \in 1..Len(MRO(cls)) : name \in Properties(MRO(cls)[i])

\* The first class of the MRO that defines the property.
Definer(cls, name) ==
  MRO(cls)[CHOOSE i \in 1..Len(MRO(cls)) :
             /\ name \in Properties(MRO(cls)[i])
             /\ \A j \in 1..(i - 1) : name \notin Properties(MRO(cls)[j])]

\* self.name = value: a property found on the class takes the assignment,
\* and a property without a setter refuses it.
setattr(cls, name) ==
  IF HasProperty(cls, name) THEN Raise("AttributeError") ELSE Ok(<<>>)

\* self.name: a property found on the class is read through its getter,
\* before the object's own dict is looked at.
getattr(ref, name) ==
  LET obj == heap[ref]
  IN  IF HasProperty(obj.cls, name)
      THEN CASE Definer(obj.cls, name) = "_BaseOutputDestination" ->
                  Raise("NotImplementedError")
             [] Definer(obj.cls, name) = "StdOutput" -> Ok(Stdout)
             [] Definer(obj.cls, name) = "StringOutput" ->
                  \* self.stream.getvalue()
                  IF HasProperty(obj.cls, "stream")
                  THEN Raise("NotImplementedError")
                  ELSE Ok(heap[obj.dict.stream.id].dict.value)
      ELSE IF name \in DOMAIN obj.dict THEN Ok(obj.dict[name])
      ELSE Raise("AttributeError")

Object(cls, dict) == [cls |-> cls, dict |-> dict]

\* posixpath.join of two parts
join(a, b) ==
  IF startswith(b, <<"/">>) THEN b
  ELSE IF a = <<>> \/ a[Len(a)] = "/" THEN a \o b
  ELSE a \o <<"/">> \o b

\* The directory a path lies in: the part before its last '/'.
dirname(p) ==
  LET slashes == {i \in 1..Len(p) : p[i] = "/"}
  IN  IF slashes = {} THEN <<>>
      ELSE LET k == CHOOSE i \in slashes : \A j \in slashes : j <= i
           IN  IF k = 1 THEN <<"/">> ELSE SubSeq(p, 1, k - 1)

\* The directories that exist: the working directory, the root and 'o'.
ExistingDirs == {<<>>, <<"/">>, <<"o">>}

\* The builtin open(fn, mode): the exception it raises, or nothing.
open_error(fn, mode) ==
  IF dirname(fn) \notin ExistingDirs THEN "FileNotFoundError"
  ELSE IF mode = "r" /\ fn \notin DOMAIN fs THEN "FileNotFoundError"
  ELSE IF mode = "x" /\ fn \in DOMAIN fs THEN "FileExistsError"
  ELSE ""

\* The file system after open(fn, mode) has succeeded.
open_effect(fn, mode) ==
  IF mode = "w" \/ fn \notin DOMAIN fs THEN Put(fs, fn, <<>>) ELSE fs

\* TextOutput(filehandle), called by the user of the module
TextOutput(filehandle) ==
  /\ LET set == setattr("TextOutput", "stream")
     IN  IF set.ok
         THEN /\ Len(heap) < MaxObjects
              /\ heap' = Append(heap, Object("TextOutput", [stream |-> filehandle]))
              /\ last' = Op("TextOutput", filehandle, Ok(Len(heap) + 1))
         ELSE /\ heap' = heap
              /\ last' = Op("TextOutput", filehandle, set)
  /\ UNCHANGED <<resVars, regVars, dbgVars, handles, fs, stdout>>

\* StringOutput()
StringOutput ==
  /\ LET set == setattr("StringOutput", "stream")
     IN  IF set.ok
         THEN /\ Len(heap) + 2 <= MaxObjects
              /\ heap' = heap \o << Object("StringIO", [value |-> <<>>]),
                                    Object("StringOutput",
                                           [stream |-> BufferRef(Len(heap) + 1)]) >>
              /\ last' = Op("StringOutput", <<>>, Ok(Len(heap) + 2))
         ELSE /\ heap' = heap
              /\ last' = Op("StringOutput", <<>>, set)
  /\ UNCHANGED <<resVars, regVars, dbgVars, handles, fs, stdout>>

\* DirOutput(dir)
DirOutput(dir) ==
  /\ Len(heap) < MaxObjects
  /\ LET set == setattr("DirOutput", "dir")
     IN  IF set.ok
         THEN /\ heap' = Append(heap, Object("DirOutput", [dir |-> dir]))
              /\ last' = Op("DirOutput", dir, Ok(Len(heap) + 1))
         ELSE /\ heap' = heap
              /\ last' = Op("DirOutput", dir, set)
  /\ UNCHANGED <<resVars, regVars, dbgVars, handles, fs, stdout>>

\* StdOutput(): the class has no __init__
StdOutput ==
  /\ Len(heap) < MaxObjects
  /\ heap' = Append(heap, Object("StdOutput", <<>>))
  /\ last' = Op("StdOutput", <<>>, Ok(Len(heap) + 1))
  /\ UNCHANGED <<resVars, regVars, dbgVars, handles, fs, stdout>>

\* DirOutput.open(self, filename, mode): the file is opened first and the
\* TextOutput made around it second; when making it fails, the file object
\* is open and nothing refers to it.
DirOutput_open(self, filename, mode) ==
  LET fn == join(heap[self].dict.dir, filename)
      set == setattr("TextOutput", "stream")
      h == Len(handles) + 1
  IN  /\ heap[self].cls = "DirOutput"
      /\ Len(handles) < MaxHandles
      /\ IF open_error(fn, mode) # ""
         THEN /\ UNCHANGED <<heap, handles, fs>>
              /\ last' = Op("DirOutput.open", <<self, filename, mode>>,
                            Raise(open_error(fn, mode)))
         ELSE /\ fs' = open_effect(fn, mode)
              /\ IF set.ok
                 THEN /\ Len(heap) < MaxObjects
                      /\ handles' = Append(handles,
                           [path |-> fn, mode |-> mode, closed |-> FALSE,
                            owner |-> Len(heap) + 1])
                      /\ heap' = Append(heap,
                           Object("TextOutput", [stream |-> FileRef(h)]))
                      /\ last' = Op("DirOutput.open", <<self, filename, mode>>,
                                    Ok(Len(heap) + 1))
                 ELSE /\ handles' = Append(handles,
                           [path |-> fn, mode |-> mode, closed |-> FALSE,
                            owner |-> 0])
                      /\ heap' = heap
                      /\ last' = Op("DirOutput.open", <<self, filename, mode>>, set)
      /\ UNCHANGED <<resVars, regVars, dbgVars, stdout>>

\* A faulty StdOutput.open: it returns a new destination.
StdOutput_open_fresh(self, args) ==
  /\ heap[self].cls = "StdOutput"
  /\ Len(heap) < MaxObjects
  /\ heap' = Append(heap, Object("StdOutput", <<>>))
  /\ last' = Op("StdOutput.open", <<self, args>>, Ok(Len(heap) + 1))
  /\ UNCHANGED <<resVars, regVars, dbgVars, handles, fs, stdout>>

\* StdOutput.open(self, *args, **kwargs)
StdOutput_open(self, args) ==
  /\ heap[self].cls = "StdOutput"
  /\ last' = Op("StdOutput.open", <<self, args>>, Ok(self))
  /\ UNCHANGED <<resVars, regVars, dbgVars, outVars, stdout>>

\* The user's self.stream.write(data)
write(self, data) ==
  LET s == getattr(self, "stream")
  IN  /\ heap[self].cls # "StringIO"
      /\ IF ~s.ok
         THEN /\ UNCHANGED <<heap, handles, fs, stdout>>
              /\ last' = Op("write", <<self, data>>, s)
         ELSE /\ CASE s.value.type = "sys.stdout" ->
                        /\ Len(stdout) + Len(stderr) + Len(data) <= MaxOutput
                        /\ stdout' = stdout \o data
                        /\ UNCHANGED <<heap, fs>>
                   [] s.value.type = "StringIO" ->
                        /\ Len(heap[s.value.id].dict.value) + Len(data) <= MaxOutput
                        /\ heap' = [heap EXCEPT ![s.value.id].dict.value = @ \o data]
                        /\ UNCHANGED <<stdout, fs>>
                   [] s.value.type = "file" ->
                        /\ ~handles[s.value.id].closed
                        /\ Len(fs[handles[s.value.id].path]) + Len(data) <= MaxOutput
                        /\ fs' = [fs EXCEPT ![handles[s.value.id].path] = @ \o data]
                        /\ UNCHANGED <<stdout, heap>>
              /\ UNCHANGED handles
              /\ last' = Op("write", <<self, data>>, Ok(Len(data)))
      /\ UNCHANGED <<resVars, regVars, dbgVars>>

\* The user's self.str
str(self) ==
  /\ heap[self].cls # "StringIO"
  /\ last' = Op("str", self, getattr(self, "str"))
  /\ UNCHANGED <<resVars, regVars, dbgVars, outVars, stdout>>

\* The runtime closes a file object nothing refers to, at a time of its own
\* choosing (CPython at once, other interpreters later).
Finalize(h) ==
  /\ handles[h].owner = 0
  /\ ~handles[h].closed
  /\ handles' = [handles EXCEPT ![h].closed = TRUE]
  /\ last' = Op("finalize", h, Ok(<<>>))
  /\ UNCHANGED <<resVars, regVars, dbgVars, heap, fs, stdout>>

OutputDirs == {<<"o">>, <<"n">>}
FileNames == {<<"x">>, <<"/", "x">>}
Modes == {"w", "r"}
Data == {<<"a", "b", "c">>, <<"d", "e", "f">>}
OpenArgs == {<<>>, <<<<"x">>, "w">>}

NextOutput ==
  \/ TextOutput(Stdout)
  \/ StringOutput
  \/ \E d \in OutputDirs : DirOutput(d)
  \/ StdOutput
  \/ \E self \in 1..Len(heap), f \in FileNames, m \in Modes : DirOutput_open(self, f, m)
  \/ \E self \in 1..Len(heap), a \in OpenArgs : StdOutput_open(self, a)
  \/ \E self \in 1..Len(heap), d \in Data : write(self, d)
  \/ \E self \in 1..Len(heap) : str(self)
  \/ \E h \in 1..Len(handles) : Finalize(h)

SpecOutput == Init /\ [][NextOutput]_vars

(***************************************************************************)
(* Properties of the resolvers.                                            *)
(***************************************************************************)
ResolverOps == {"resource_bytes", "resource_text", "resource_template", "docs"}

KindOf(op) ==
  CASE op = "resource_bytes" -> "bytes"
    [] op = "resource_template" -> "template"
    [] OTHER -> "text"

\* The step is a call of a resolver.
Called == calls' = calls + 1

\* The same call with another resource name.
Renamed(call, n) == [call EXCEPT !.args = <<n>> \o Tail(call.args)]

\* The same tuple with the name prefixed by the marker.
Marked(t) == <<t[1], _RSC \o t[2], t[3], t[4]>>

\* C2 as stated: for every resource name n, also one that starts with
\* 'resource/', resolving n and resolving 'resource/' + n give the same
\* outcome, with each resolver and whatever the caches hold.
C2_MarkedNameSameContent ==
  \A t \in DOMAIN returned :
    Marked(t) \in DOMAIN returned => returned[Marked(t)] = returned[t]

\* C2 as amended: for every resource name n that does not start with
\* 'resource/', resolving n and resolving 'resource/' + n give the same
\* outcome, with each resolver and whatever the caches hold.
C2_MarkedPlainNameSameContent ==
  \A t \in DOMAIN returned :
    (~startswith(t[2], _RSC) /\ Marked(t) \in DOMAIN returned)
      => returned[Marked(t)] = returned[t]

\* Both a plain name and its marked form have been resolved to content by
\* the same resolver.
C2_Witness ==
  \E t \in DOMAIN returned :
    /\ ~startswith(t[2], _RSC)
    /\ Marked(t) \in DOMAIN returned
    /\ returned[t].ok
    /\ returned[t].value # <<>>

\* The calls that differ from call only by the leading marker of the name.
Siblings(call) ==
  {Renamed(call, _RSC \o resourcename(call))}
    \cup (IF startswith(resourcename(call), _RSC)
          THEN {Renamed(call, _strip_resource(resourcename(call)))}
          ELSE {})

\* C3: once a resolver holds the entry of one of two names that differ only
\* by the leading 'resource/', resolving the other with the same resolver is
\* a cache hit: it reads nothing from the storage and adds no cache entry.
C3_MarkedNameSharesEntry ==
  [][(/\ Called
      /\ \E c \in Siblings(last'.arg) :
           KeyOf(c) \in Keys(cache[KindOf(last'.op)]))
       => (/\ last'.hit
           /\ Count(reads', <<KindOf(last'.op), KeyOf(last'.arg)>>)
                = Count(reads, <<KindOf(last'.op), KeyOf(last'.arg)>>)
           /\ Len(cache'[KindOf(last'.op)]) = Len(cache[KindOf(last'.op)]))]_vars

\* The keys a resolver has been called with.
Touched(kind) == {k \in DOMAIN reads : k[1] = kind}

WithinCapacity == \A kind \in Kinds : Cardinality(Touched(kind)) <= maxsize(kind)

\* The reads of the storage made for a (name, encoding, errors) tuple.
ReadsOf(t) ==
  Sum(reads, {k \in DOMAIN reads : Tuple(k[1], Call(k[2][1], k[2][2])) = t})

\* A second call with a tuple returns what the first returned.
Coherent ==
  (Called /\ Tuple(KindOf(last'.op), last'.arg) \in DOMAIN returned)
    => last'.result = returned[Tuple(KindOf(last'.op), last'.arg)]

\* C4 as stated: a tuple (name, encoding, errors) resolved again returns
\* equal content, and within the cache capacity the storage is read at most
\* once per tuple, whether the defaults are written out or left out.
C4_OneReadPerTuple ==
  /\ [](WithinCapacity => \A t \in DOMAIN returned : ReadsOf(t) <= 1)
  /\ [][Coherent]_vars

\* C4 as amended: a tuple (name, encoding, errors) resolved again returns
\* equal content, and within the cache capacity the storage is read at most
\* once per distinct argument list as written (a call that leaves the
\* defaults out and one that writes them out are two argument lists) whose
\* call returns content; a call that raises is not cached.
C4_OneReadPerArgumentList ==
  /\ [](WithinCapacity =>
          \A k \in DOMAIN reads :
            returned[Tuple(k[1], Call(k[2][1], k[2][2]))].ok => reads[k] <= 1)
  /\ [][Coherent]_vars

\* A repeated call was a hit, after the same tuple was read once with the
\* defaults left out and once with them written out.
C4_Witness ==
  /\ last.hit
  /\ \E k1, k2 \in DOMAIN reads :
       /\ k1 # k2
       /\ k1[1] = k2[1]
       /\ Tuple(k1[1], Call(k1[2][1], k1[2][2])) = Tuple(k2[1], Call(k2[2][1], k2[2][2]))
       /\ reads[k1] = 1
       /\ reads[k2] = 1

NotFound == {"FileNotFoundError", "TemplateNotFound"}

\* The last call was a resolver's, for a name that is no file.
LastAbsent ==
  /\ last.op \in ResolverOps
  /\ ~exists(_strip_resource(resourcename(last.arg)))

\* C5: resolving a name that does not exist, with resource_bytes,
\* resource_text, resource_template or Outputs.docs, raises a not-found
\* error on every call and after any earlier calls; it never returns content.
C5_AbsentRaisesNotFound ==
  LastAbsent => (~last.result.ok /\ last.result.err \in NotFound)

\* A name that is no file was resolved after a call that cached content.
C5_Witness ==
  /\ LastAbsent
  /\ calls >= 2
  /\ \E kind \in Kinds : cache[kind] # <<>>

\* The entries of a resolver's cache that the step removes.
Evicted(kind) == Keys(cache[kind]) \ Keys(cache'[kind])

\* C9: each resolver's cache holds at most its maxsize (64) entries and a
\* call of one resolver leaves the caches of the others alone; an entry
\* leaves a cache only when a miss of the same resolver inserts a new entry
\* into the full cache, and it is then the least recently used entry.
C9_BoundedLRU ==
  /\ [](\A kind \in Kinds : Len(cache[kind]) <= maxsize(kind))
  /\ [][\A kind \in Kinds :
          /\ (Called /\ kind # KindOf(last'.op)) => cache'[kind] = cache[kind]
          /\ \A gone \in Evicted(kind) :
               /\ Called
               /\ kind = KindOf(last'.op)
               /\ ~last'.hit
               /\ Len(cache[kind]) = maxsize(kind)
               /\ Keys(cache'[kind]) \ Keys(cache[kind]) = {KeyOf(last'.arg)}
               /\ \A k \in Keys(cache[kind]) :
                    lastUse[<<kind, gone>>] <= lastUse[<<kind, k>>]]_vars

\* A full cache has lost an entry it once held, after a hit on its oldest entry.
C9_Witness ==
  \E kind \in Kinds :
    /\ Len(cache[kind]) = maxsize(kind)
    /\ \E k \in Touched(kind) : reads[k] >= 1 /\ k[2] \notin Keys(cache[kind])
    /\ KeyOf(WarmCall(1)) \in Keys(cache[kind])

(***************************************************************************)
(* Properties of the registry.                                             *)
(***************************************************************************)
\* How often a name occurs among the names the registry enumerates.
Occurrences(n) == Cardinality({i \in 1..Len(_outputs) : _outputs[i][1] = n})

Latest(n) == registered[n][Len(registered[n])]

\* C1: after any calls of register, output(n) returns the class most
\* recently registered under n and the enumeration holds n exactly once,
\* for every registered n; for a name never registered output raises
\* KeyError and leaves the registry as it was; register(kls) returns kls.
C1_RegistryLastWriteWins ==
  /\ [](/\ \A n \in DOMAIN registered :
             DictGet(_outputs, n) = Ok(Latest(n)) /\ Occurrences(n) = 1
        /\ last.op = "output" =>
             last.result = (IF last.arg \in DOMAIN registered
                            THEN Ok(Latest(last.arg)) ELSE Raise("KeyError"))
        /\ last.op = "__iter__" =>
             /\ {last.result.value[i] : i \in 1..Len(last.result.value)}
                  = DOMAIN registered
             /\ Len(last.result.value) = Cardinality(DOMAIN registered)
        /\ (last.op = "register" /\ last.result.ok) => last.result.value = last.arg)
  /\ [][last'.op = "output" => _outputs' = _outputs]_vars

\* A name registered twice, with two classes, has been looked up, and so
\* has a name never registered.
C1_Witness ==
  /\ html \in DOMAIN registered
  /\ Len(registered[html]) >= 2
  /\ registered[html][1] # Latest(html)
  /\ last.op = "output"
  /\ last.arg = html
  /\ last.result.ok
  /\ missing \notin DOMAIN registered

(***************************************************************************)
(* Properties of the destinations.                                         *)
(***************************************************************************)
Instances(cls) == {i \in 1..Len(heap) : heap[i].cls = cls}

\* C6: StringOutput() makes a destination; after writes w1..wk to its
\* stream the accessor str gives w1 + ... + wk; reading stream again gives
\* the same buffer.
C6_StringOutputReadsBack ==
  /\ [](/\ last.op = "StringOutput" =>
             /\ last.result.ok
             /\ heap[last.result.value].cls = "StringOutput"
             /\ getattr(last.result.value, "str") = Ok(<<>>)
        /\ \A o \in Instances("StringOutput") :
             getattr(o, "stream") = Ok(heap[o].dict.stream))
  /\ [][\A o \in Instances("StringOutput") :
          (last'.op = "write" /\ last'.arg[1] = o /\ heap' # heap)
            => getattr(o, "str")' =
                 Ok(getattr(o, "str").value \o last'.arg[2])]_vars

UnownedOpen == {h \in 1..Len(handles) : handles[h].owner = 0 /\ ~handles[h].closed}

\* C7: on a DirOutput of an existing directory, open(filename, 'w') returns
\* a new TextOutput whose stream is a newly opened file object on
\* <dir>/<filename>; what is written to it is what the file holds; no open
\* file object is without an owner when open has returned or failed.
C7_DirOutputOpens ==
  /\ [](/\ (/\ last.op = "DirOutput.open"
            /\ last.arg[3] = "w"
            /\ dirname(join(heap[last.arg[1]].dict.dir, last.arg[2])) \in ExistingDirs)
             => /\ last.result.ok
                /\ heap[last.result.value].cls = "TextOutput"
                /\ getattr(last.result.value, "stream") = Ok(FileRef(Len(handles)))
                /\ handles[Len(handles)].path
                     = join(heap[last.arg[1]].dict.dir, last.arg[2])
        /\ UnownedOpen = {})
  /\ [][\A o \in Instances("TextOutput") :
          (last'.op = "write" /\ last'.arg[1] = o /\ last'.result.ok)
            => fs'[handles[heap[o].dict.stream.id].path]
                 = fs[handles[heap[o].dict.stream.id].path] \o last'.arg[2]]_vars

\* C8: StdOutput.open, with any arguments and however often it is called,
\* returns the destination it was called on, whose stream is sys.stdout; it
\* raises nothing, opens no file and changes no state.
C8_StdOutputOpenIsSelf ==
  /\ [](/\ last.op = "StdOutput.open" =>
             /\ last.result = Ok(last.arg[1])
             /\ getattr(last.result.value, "stream") = Ok(Stdout)
        /\ \A o \in Instances("StdOutput") : getattr(o, "stream") = Ok(Stdout))
  /\ [][last'.op = "StdOutput.open" =>
          /\ heap' = heap
          /\ handles' = handles
          /\ fs' = fs
          /\ stdout' = stdout
          /\ stderr' = stderr]_vars

\* StdOutput.open has been called with arguments, beside another
\* destination and after text went to sys.stdout.
C8_Witness ==
  /\ last.op = "StdOutput.open"
  /\ last.arg[2] # <<>>
  /\ Len(heap) >= 2
  /\ stdout # <<>>

(***************************************************************************)
(* Properties of the diagnostics.                                          *)
(***************************************************************************)
\* The step is printverbose("x"), without file= or with a file.
PrintsX ==
  /\ last'.op = "printverbose"
  /\ last'.arg[1] = << <<"x">> >>
  /\ last'.arg[2] \in {<<>>, [file |-> "sys.stdout"]}

\* C10: printverbose("x") writes nothing and changes nothing when
\* ProgramGlobals['verbose'] is false, and writes "x" and a newline to
\* sys.stderr, or to the file the caller passes, when it is true; it never
\* changes the flag.
C10_PrintverboseGated ==
  [][PrintsX =>
       /\ ProgramGlobals' = ProgramGlobals
       /\ UNCHANGED <<resVars, regVars, outVars>>
       /\ IF ~ProgramGlobals.verbose
          THEN stderr' = stderr /\ stdout' = stdout
          ELSE IF "file" \in DOMAIN last'.arg[2]
               THEN stdout' = stdout \o <<"x", "\n">> /\ stderr' = stderr
               ELSE stderr' = stderr \o <<"x", "\n">> /\ stdout' = stdout]_vars

\* printverbose("x") has written to sys.stderr with the flag on, and has
\* been called again with the flag off.
C10_Witness ==
  /\ last.op = "printverbose"
  /\ last.arg[1] = << <<"x">> >>
  /\ last.arg[2] = <<>>
  /\ ~ProgramGlobals.verbose
  /\ stderr = <<"x", "\n">>

(***************************************************************************)
(* The whole module.                                                       *)
(***************************************************************************)
Next == NextResource \/ NextRegistry \/ NextOutput \/ NextVerbose

Spec == Init /\ [][Next]_vars

====
